---- MODULE Spec2Model ----
(***************************************************************************)
(* State-machine model of the background countdown engine of               *)
(* SimpleTimerApp: src/src/services/TimerService.js, together with the     *)
(* collaborators it talks to (the wall clock, the JS interval timers,      *)
(* AsyncStorage and the native lock/app-state event sources).              *)
(*                                                                         *)
(* Every method of TimerService is an operator from a machine record to a  *)
(* machine record, so that one action of the model is one whole handler,   *)
(* with every nested call it makes.                                        *)
(***************************************************************************)
EXTENDS Integers, Sequences, FiniteSets, TLC

(***************************************************************************)
(* Bounds of the model                                                     *)
(***************************************************************************)
\* the wall clock advances in steps of ClockStep milliseconds ...
ClockStep == 1000
\* ... at most MaxClockSteps times
MaxClockSteps == 2
\* Date.now() when the model starts
Epoch == 1000
\* largest availableTime a credit may produce
MaxTime == 2
\* largest amount of one addTimeCredits / removeTimeCredits call
MaxCredit == 2
\* AsyncStorage results on their way back to JS
MaxPending == 1
\* AsyncStorage calls handed to the native module and not yet completed
MaxInFlight == 2
\* observers registered at one time
MaxListeners == 2

(***************************************************************************)
(* Program constants                                                       *)
(***************************************************************************)
TIMER_STORAGE_KEY == "@timer_remaining"
LOCK_STATE_KEY == "@lock_state"
\* setInterval(..., 1000)
TickPeriod == 1000
\* Math.floor((Date.now() - backgroundStartTime) / 1000)
MsPerSecond == 1000
\* the remaining times scheduleTimeWarnings warns at, in seconds
FiveMinutes == 300
OneMinute == 60
ThirtySeconds == 30
AppStates == {"active", "inactive", "background"}

\* JS null, as held by this.timer and this.backgroundStartTime
null == -1
\* JS NaN, the result of parseInt on a string with no leading digits
NaN == -1000000

(***************************************************************************)
(* JavaScript values                                                       *)
(***************************************************************************)
\* truthiness of a number-or-null: null, 0 and NaN are falsy
Truthy(x) == x # null /\ x # 0 /\ x # NaN

\* arithmetic and comparison of JS numbers: NaN is absorbing and compares false
jsAdd(a, b) == IF a = NaN \/ b = NaN THEN NaN ELSE a + b
jsSub(a, b) == IF a = NaN \/ b = NaN THEN NaN ELSE a - b
jsGt(a, b) == a # NaN /\ b # NaN /\ a > b
jsLe(a, b) == a # NaN /\ b # NaN /\ a <= b
jsMax(a, b) == IF a = NaN \/ b = NaN THEN NaN ELSE IF a >= b THEN a ELSE b

DigitChars == <<"0", "1", "2", "3", "4", "5", "6", "7", "8", "9">>
IsDigit(c) == \E d \in 1..10 : DigitChars[d] = c
DigitVal(c) == (CHOOSE d \in 1..10 : DigitChars[d] = c) - 1

\* Number.prototype.toString(): a string is a sequence of characters
RECURSIVE Digits(_)
Digits(n) == IF n < 10 THEN <<DigitChars[n + 1]>>
             ELSE Append(Digits(n \div 10), DigitChars[(n % 10) + 1])
toString(n) == IF n = NaN THEN <<"N", "a", "N">>
               ELSE IF n < 0 THEN <<"-">> \o Digits(0 - n)
               ELSE Digits(n)

\* parseInt(s, 10): optional sign, then the longest run of leading digits
RECURSIVE ParseDigits(_, _, _)
ParseDigits(s, i, acc) == IF i > Len(s) \/ ~IsDigit(s[i]) THEN acc
                          ELSE ParseDigits(s, i + 1, acc * 10 + DigitVal(s[i]))
parseInt(s) == LET signed == Len(s) > 0 /\ s[1] \in {"-", "+"}
                   first == IF signed THEN 2 ELSE 1
               IN IF first > Len(s) \/ ~IsDigit(s[first]) THEN NaN
                  ELSE IF signed /\ s[1] = "-" THEN 0 - ParseDigits(s, first, 0)
                  ELSE ParseDigits(s, first, 0)

(***************************************************************************)
(* State                                                                   *)
(***************************************************************************)
VARIABLES
    availableTime,          \* this.availableTime
    timer,                  \* this.timer: interval id or null
    appState,               \* this.appState
    isDeviceLocked,         \* this.isDeviceLocked
    isTimerRunning,         \* this.isTimerRunning
    backgroundStartTime,    \* this.backgroundStartTime: ms or null
    listening,              \* initialize() has registered the event listeners
    now,                    \* Date.now()
    intervals,              \* live setInterval timers: [id, due]
    storage,                \* AsyncStorage contents
    callbacks,              \* AsyncStorage results not yet delivered to JS
    serial,                 \* AsyncStorage completes every call when it is issued
    faulty,                 \* AsyncStorage may reject a call
    inflight,               \* otherwise: the calls issued and not yet completed
    lastOp,                 \* the operation the last step performed
    emitted,                \* events notifyListeners sent during the last step
    listeners,              \* this.listeners: the callbacks, in insertion order
    received,               \* the calls of callbacks during the last step
    lockMark,               \* availableTime when the device was locked in background
    killed,                 \* what the process that was killed last knew
    creditScenario,         \* follows addTimeCredits from zero in background
    episode,                \* availableTime when the running episode started
    resetPhase,             \* follows resetAll() under out-of-order storage
    isInitialized,          \* NotificationService: this.isInitialized
    scheduled,              \* local notifications the OS holds for later
    device                  \* the phone: keyguard locked, screen on

vars == <<availableTime, timer, appState, isDeviceLocked, isTimerRunning,
          backgroundStartTime, listening, now, intervals,
          storage, callbacks, serial, faulty, inflight, lastOp, emitted, listeners, received,
          lockMark, killed,
          creditScenario, episode, resetPhase, isInitialized, scheduled, device>>

\* the part of the state the methods of TimerService read and write
Self == [availableTime |-> availableTime, timer |-> timer, appState |-> appState,
         isDeviceLocked |-> isDeviceLocked, isTimerRunning |-> isTimerRunning,
         backgroundStartTime |-> backgroundStartTime, intervals |-> intervals,
         issued |-> <<>>, delivered |-> 0, emitted |-> <<>>,
         listeners |-> listeners, received |-> <<>>]

\* an AsyncStorage call handed to the native module
StorageOp(op, key, value) == [op |-> op, key |-> key, value |-> value, init |-> FALSE]
\* the getItem of loadSavedTime; init marks the call made by initialize()
GetItemOp(init) == [op |-> "getItem", key |-> TIMER_STORAGE_KEY, value |-> <<>>,
                    init |-> init]

LockStateJson == <<"{", "}">>

Absent == [present |-> FALSE, value |-> <<>>]
Stored(v) == [present |-> TRUE, value |-> v]
EmptyStorage == [remaining |-> Absent, lockState |-> Absent]

(***************************************************************************)
(* TimerService methods                                                    *)
(***************************************************************************)
\* a callback given to addEventListener: it returns or throws when called
Callbacks == [id : 1..MaxListeners, throws : BOOLEAN]

\* mutant of forEach: without the try/catch the first throw ends the loop
RECURSIVE forEach_NoCatch(_, _)
forEach_NoCatch(ls, event) ==
    IF ls = <<>> THEN <<>>
    ELSE LET call == [to |-> Head(ls).id, event |-> event.event]
         IN IF Head(ls).throws THEN <<call>>
            ELSE <<call>> \o forEach_NoCatch(Tail(ls), event)

\* this.listeners.forEach(callback => { try { callback(event) } catch ... }):
\* the calls made, in order; an exception is caught and the loop goes on
RECURSIVE forEach(_, _)
forEach(ls, event) ==
    IF ls = <<>> THEN <<>>
    ELSE LET call == [to |-> Head(ls).id, event |-> event.event]
         IN IF Head(ls).throws THEN <<call>> \o forEach(Tail(ls), event)
            ELSE <<call>> \o forEach(Tail(ls), event)

\* every listener is called with the event; emitted records the events in order
notifyListeners(s, event) ==
    [s EXCEPT !.emitted = Append(@, event),
              !.received = @ \o forEach(s.listeners, event)]

\* mutant of addEventListener: a new callback is put before the others
addEventListener_Prepend(s, callback) ==
    IF \E i \in 1..Len(s.listeners) : s.listeners[i] = callback THEN s
    ELSE [s EXCEPT !.listeners = <<callback>> \o @]

\* Set.add keeps one entry per callback, in insertion order
addEventListener(s, callback) ==
    IF \E i \in 1..Len(s.listeners) : s.listeners[i] = callback THEN s
    ELSE [s EXCEPT !.listeners = Append(@, callback)]

\* the function addEventListener returns: Set.delete
removeEventListener(s, callback) ==
    [s EXCEPT !.listeners = SelectSeq(@, LAMBDA l : l # callback)]

\* the events that carry the remaining time as availableTime
TimeEvent(name, time) == [event |-> name, availableTime |-> time]
\* creditsAdded / creditsRemoved
CreditEvent(name, seconds, previousTime, time) ==
    [event |-> name, amount |-> seconds, previousTotal |-> previousTime,
     newTotal |-> time]

\* mutant of shouldTimerRun: the inactive state is forgotten
shouldTimerRun_BackgroundOnly(s) ==
    /\ ~s.isDeviceLocked
    /\ s.appState = "background"
    /\ jsGt(s.availableTime, 0)

shouldTimerRun(s) ==
    /\ ~s.isDeviceLocked
    /\ (s.appState = "background" \/ s.appState = "inactive")
    /\ jsGt(s.availableTime, 0)

\* setInterval hands out an id that no live interval has
NewIntervalId(live) == CHOOSE i \in 1..(Cardinality(live) + 1) :
                          \A t \in live : t.id # i

\* mutant of startTimer: the early return when already running is dropped
startTimer_NoGuard(s, t) ==
    LET id == NewIntervalId(s.intervals)
        s1 == [s EXCEPT !.isTimerRunning = TRUE,
                        !.backgroundStartTime = t,
                        !.timer = id,
                        !.intervals = @ \cup {[id |-> id, due |-> t + TickPeriod]}]
    IN notifyListeners(s1, TimeEvent("trackingStarted", s1.availableTime))

\* mutant of startTimer: backgroundStartTime is not set
startTimer_NoCheckpoint(s, t) ==
    IF s.isTimerRunning THEN s
    ELSE LET id == NewIntervalId(s.intervals)
             s1 == [s EXCEPT !.isTimerRunning = TRUE,
                             !.timer = id,
                             !.intervals = @ \cup {[id |-> id, due |-> t + TickPeriod]}]
         IN notifyListeners(s1, TimeEvent("trackingStarted", s1.availableTime))

startTimer(s, t) ==
    IF s.isTimerRunning THEN s
    ELSE LET id == NewIntervalId(s.intervals)
             s1 == [s EXCEPT !.isTimerRunning = TRUE,
                             !.backgroundStartTime = t,
                             !.timer = id,
                             !.intervals = @ \cup {[id |-> id, due |-> t + TickPeriod]}]
         IN notifyListeners(s1, TimeEvent("trackingStarted", s1.availableTime))

\* mutant of stopTimer: this.timer is not set to null
stopTimer_KeepHandle(s) ==
    IF ~s.isTimerRunning THEN s
    ELSE LET s1 == IF Truthy(s.timer)
                   THEN [s EXCEPT !.intervals = {i \in @ : i.id # s.timer}]
                   ELSE s
             s2 == [s1 EXCEPT !.isTimerRunning = FALSE]
         IN notifyListeners(s2, TimeEvent("trackingStopped", s2.availableTime))

\* mutant of stopTimer: clearInterval is not called
stopTimer_KeepInterval(s) ==
    IF ~s.isTimerRunning THEN s
    ELSE LET s1 == IF Truthy(s.timer) THEN [s EXCEPT !.timer = null] ELSE s
             s2 == [s1 EXCEPT !.isTimerRunning = FALSE]
         IN notifyListeners(s2, TimeEvent("trackingStopped", s2.availableTime))

\* mutant of stopTimer: the early return when not running is dropped
stopTimer_NoGuard(s) ==
    LET s1 == IF Truthy(s.timer)
              THEN [s EXCEPT !.intervals = {i \in @ : i.id # s.timer},
                             !.timer = null]
              ELSE s
        s2 == [s1 EXCEPT !.isTimerRunning = FALSE]
    IN notifyListeners(s2, TimeEvent("trackingStopped", s2.availableTime))

stopTimer(s) ==
    IF ~s.isTimerRunning THEN s
    ELSE LET s1 == IF Truthy(s.timer)
                   THEN [s EXCEPT !.intervals = {i \in @ : i.id # s.timer},
                                  !.timer = null]
                   ELSE s
             s2 == [s1 EXCEPT !.isTimerRunning = FALSE]
         IN notifyListeners(s2, TimeEvent("trackingStopped", s2.availableTime))

updateTimerState(s, t) ==
    IF shouldTimerRun(s) /\ ~s.isTimerRunning THEN startTimer(s, t)
    ELSE IF ~shouldTimerRun(s) /\ s.isTimerRunning THEN stopTimer(s)
    ELSE s

\* the synchronous part of saveTime: setItem is called with the value of now
saveTime(s) ==
    [s EXCEPT !.issued = Append(@, StorageOp("setItem", TIMER_STORAGE_KEY,
                                              toString(s.availableTime)))]

\* the synchronous part of saveState. No code path reads LOCK_STATE_KEY back,
\* so the JSON text it stores is kept as one opaque string
saveState(s) ==
    [s EXCEPT !.issued = Append(@, StorageOp("setItem", LOCK_STATE_KEY, LockStateJson))]

\* mutant of handleTimeExpired: timeExpired is emitted before the timer stops
handleTimeExpired_EmitFirst(s) ==
    stopTimer(notifyListeners(s, TimeEvent("timeExpired", 0)))

\* mutant of handleTimeExpired: the timer is not stopped
handleTimeExpired_NoStop(s) == notifyListeners(s, TimeEvent("timeExpired", 0))

handleTimeExpired(s) == notifyListeners(stopTimer(s), TimeEvent("timeExpired", 0))

tick(s) ==
    IF jsLe(s.availableTime, 0) THEN handleTimeExpired(s)
    ELSE LET s1 == saveTime([s EXCEPT !.availableTime = jsSub(@, 1)])
             s2 == notifyListeners(s1, TimeEvent("timeUpdate", s1.availableTime))
         IN IF jsLe(s2.availableTime, 0) THEN handleTimeExpired(s2) ELSE s2

\* mutant of processBackgroundTime: backgroundStartTime is not cleared
processBackgroundTime_KeepCheckpoint(s, t) ==
    LET backgroundDuration == (t - s.backgroundStartTime) \div MsPerSecond
    IN IF Truthy(s.backgroundStartTime) /\ backgroundDuration > 0
       THEN LET d == saveTime([s EXCEPT !.availableTime =
                                  jsMax(0, jsSub(@, backgroundDuration))])
            IN notifyListeners(d, [event |-> "backgroundTimeProcessed",
                                   backgroundDuration |-> backgroundDuration,
                                   availableTime |-> d.availableTime])
       ELSE s

processBackgroundTime(s, t) ==
    LET backgroundDuration == (t - s.backgroundStartTime) \div MsPerSecond
        s1 == IF Truthy(s.backgroundStartTime) /\ backgroundDuration > 0
              THEN LET d == saveTime([s EXCEPT !.availableTime =
                                         jsMax(0, jsSub(@, backgroundDuration))])
                   IN notifyListeners(d, [event |-> "backgroundTimeProcessed",
                                          backgroundDuration |-> backgroundDuration,
                                          availableTime |-> d.availableTime])
              ELSE s
    IN [s1 EXCEPT !.backgroundStartTime = null]

handleLockStateChange(s, t) == saveState(updateTimerState(s, t))

handleAppStateChange(s, previousState, currentState, t) ==
    IF currentState = "active" THEN processBackgroundTime(stopTimer(s), t)
    ELSE IF previousState = "active" THEN updateTimerState(s, t)
    ELSE s

addTimeCredits(s, seconds, t) ==
    LET s1 == saveTime([s EXCEPT !.availableTime = jsAdd(@, seconds)])
        s2 == updateTimerState(s1, t)
    IN notifyListeners(s2, CreditEvent("creditsAdded", seconds, s.availableTime,
                                       s2.availableTime))

\* mutant of removeTimeCredits: the Math.max(0, ...) is dropped
removeTimeCredits_NoClamp(s, seconds, t) ==
    LET s1 == saveTime([s EXCEPT !.availableTime = jsSub(@, seconds)])
        s2 == updateTimerState(s1, t)
    IN notifyListeners(s2, CreditEvent("creditsRemoved", seconds, s.availableTime,
                                       s2.availableTime))

removeTimeCredits(s, seconds, t) ==
    LET s1 == saveTime([s EXCEPT !.availableTime = jsMax(0, jsSub(@, seconds))])
        s2 == updateTimerState(s1, t)
    IN notifyListeners(s2, CreditEvent("creditsRemoved", seconds, s.availableTime,
                                       s2.availableTime))

\* resetAll up to its await
resetAll(s) ==
    LET s1 == [stopTimer(s) EXCEPT !.availableTime = 0]
    IN [s1 EXCEPT !.issued = Append(@, StorageOp("multiRemove", "", <<>>))]

cleanup(s) == saveState(saveTime(stopTimer(s)))

\* loadSavedTime after its await, given what getItem returned
loadSavedTimeResume(s, savedTime) ==
    IF savedTime.present /\ Len(savedTime.value) > 0
    THEN LET s1 == [s EXCEPT !.availableTime = parseInt(savedTime.value)]
         IN notifyListeners(s1, TimeEvent("timeLoaded", s1.availableTime))
    ELSE s

\* mutant of loadSavedTimeAfterAwait: the value is used whether or not
\* getItem was rejected
loadSavedTimeAfterAwait_IgnoreRejection(s, settled) ==
    loadSavedTimeResume(s, settled.result)

\* loadSavedTime from "await AsyncStorage.getItem" on: a rejection goes to the
\* catch, which logs it
loadSavedTimeAfterAwait(s, settled) ==
    IF settled.ok THEN loadSavedTimeResume(s, settled.result) ELSE s

(***************************************************************************)
(* NotificationService                                                     *)
(***************************************************************************)
\* PushNotification.localNotificationSchedule: what is shown and when
Notification(title, date) == [title |-> title, date |-> date]

scheduleLowTimeNotification(ns, minutesRemaining, timeUntilInSeconds, t) ==
    IF ~ns.isInitialized THEN ns
    ELSE [ns EXCEPT !.scheduled =
             @ \cup {Notification(toString(minutesRemaining)
                                     \o <<IF minutesRemaining # 1 THEN " Minutes Remaining"
                                                                  ELSE " Minute Remaining">>,
                                   t + timeUntilInSeconds * MsPerSecond)}]

cancelAllNotifications(ns) == [ns EXCEPT !.scheduled = {}]

\* mutant of scheduleTimeWarnings: the notifications already scheduled are kept
scheduleTimeWarnings_NoCancel(ns, availableTimeInSeconds, t) ==
    IF ~ns.isInitialized \/ jsLe(availableTimeInSeconds, 0) THEN ns
    ELSE LET n1 == IF jsGt(availableTimeInSeconds, FiveMinutes)
                   THEN scheduleLowTimeNotification(ns, 5,
                                                    availableTimeInSeconds - FiveMinutes, t)
                   ELSE ns
             n2 == IF jsGt(availableTimeInSeconds, OneMinute)
                   THEN scheduleLowTimeNotification(n1, 1,
                                                    availableTimeInSeconds - OneMinute, t)
                   ELSE n1
         IN IF jsGt(availableTimeInSeconds, ThirtySeconds)
            THEN [n2 EXCEPT !.scheduled =
                     @ \cup {Notification(<<"30 Seconds Left">>,
                                          t + (availableTimeInSeconds - ThirtySeconds)
                                                * MsPerSecond)}]
            ELSE n2

scheduleTimeWarnings(ns, availableTimeInSeconds, t) ==
    IF ~ns.isInitialized \/ jsLe(availableTimeInSeconds, 0) THEN ns
    ELSE LET n0 == cancelAllNotifications(ns)
             n1 == IF jsGt(availableTimeInSeconds, FiveMinutes)
                   THEN scheduleLowTimeNotification(n0, 5,
                                                    availableTimeInSeconds - FiveMinutes, t)
                   ELSE n0
             n2 == IF jsGt(availableTimeInSeconds, OneMinute)
                   THEN scheduleLowTimeNotification(n1, 1,
                                                    availableTimeInSeconds - OneMinute, t)
                   ELSE n1
         IN IF jsGt(availableTimeInSeconds, ThirtySeconds)
            THEN [n2 EXCEPT !.scheduled =
                     @ \cup {Notification(<<"30 Seconds Left">>,
                                          t + (availableTimeInSeconds - ThirtySeconds)
                                                * MsPerSecond)}]
            ELSE n2

(***************************************************************************)
(* Observers of the claims' scenarios (they never influence the program)   *)
(***************************************************************************)
NoMark == null
HasEvent(evs, name) == \E i \in 1..Len(evs) : evs[i].event = name
CountEvent(evs, name) == Cardinality({i \in 1..Len(evs) : evs[i].event = name})

\* availableTime as it was when an Unlocked -> Locked signal was processed with
\* the app in background and time left; kept while the device stays locked and
\* through the step that unlocks it, dropped by anything that sets the time
NextLockMark(op, s) ==
    IF /\ op \in {"deviceLocked", "currentLockState"}
       /\ ~isDeviceLocked /\ s.isDeviceLocked
       /\ appState = "background" /\ availableTime > 0
    THEN s.availableTime
    ELSE IF /\ isDeviceLocked
            /\ op \in {"deviceLocked", "deviceUnlocked", "currentLockState",
                       "appStateChange", "tick"}
    THEN lockMark
    ELSE NoMark

\* What a killed process knew, kept until its successor has finished
\* initialize(): whether the timer was running, the instant its remaining time
\* was last exact (the timer's start or its last tick), and the remaining
\* time it had persisted
NotKilled == [wasRunning |-> FALSE, checkpoint |-> null, remaining |-> 0]
LastExact == IF \E i \in intervals : i.id = timer
             THEN (CHOOSE i \in intervals : i.id = timer).due - TickPeriod
             ELSE backgroundStartTime
Persisted == IF storage.remaining.present THEN parseInt(storage.remaining.value) ELSE 0

\* "counting" from an addTimeCredits made at zero in background and unlocked,
\* over the ticks and app state changes that follow while time is left;
\* "idle" once the added time is used up or another call intervenes
NextCreditScenario(op, s) ==
    IF op = "addTimeCredits" /\ availableTime = 0 /\ appState = "background"
       /\ ~isDeviceLocked
    THEN "counting"
    ELSE IF /\ creditScenario = "counting" /\ availableTime > 0
            /\ op \in {"tick", "appStateChange"}
    THEN "counting"
    ELSE "idle"

\* availableTime at the trackingStarted that opened the present stretch of
\* not Active and unlocked; kept over ticks and over app state changes that
\* stay away from active, dropped by every other call
NextEpisode(op, s) ==
    IF HasEvent(s.emitted, "trackingStarted") THEN s.availableTime
    ELSE IF op = "tick" \/ (op = "appStateChange" /\ s.appState # "active")
    THEN episode
    ELSE NoMark

\* no resetAll() is waiting for its multiRemove
NoResetPending ==
    /\ \A o \in inflight : o.op # "multiRemove"
    /\ \A i \in 1..Len(callbacks) : callbacks[i].kind # "multiRemove"

\* "began" from a resetAll() that overlaps no other to the end of its await,
\* then "finished", as long as no operation writes the remaining time;
\* followed only where AsyncStorage completes calls out of order (in order,
\* multiRemove comes after every earlier write)
NextResetPhase(op) ==
    IF serial THEN "none"
    ELSE IF op = "resetAll" THEN (IF NoResetPending THEN "began" ELSE "none")
    ELSE IF op \in {"addTimeCredits", "removeTimeCredits", "tick", "appStateChange",
                    "cleanup"}
    THEN "none"
    ELSE IF op = "resetAllDone" /\ resetPhase = "began" THEN "finished"
    ELSE resetPhase

(***************************************************************************)
(* AsyncStorage                                                            *)
(***************************************************************************)
\* The native module executes the calls in the order they were issued, so a
\* call takes effect on the stored data when it is issued; what is late is
\* the result on its way back to JS: the value getItem read and the
\* acknowledgement of multiRemove wait in callbacks for their continuation.
RECURSIVE Execute(_, _, _, _)
Execute(st, cbs, ops, oks) ==
    IF ops = <<>> THEN [storage |-> st, callbacks |-> cbs]
    ELSE LET o == Head(ops)
             ok == Head(oks)
         IN IF o.op = "setItem"
            THEN Execute(IF ~ok THEN st
                         ELSE IF o.key = TIMER_STORAGE_KEY
                         THEN [st EXCEPT !.remaining = Stored(o.value)]
                         ELSE [st EXCEPT !.lockState = Stored(o.value)],
                         cbs, Tail(ops), Tail(oks))
            ELSE IF o.op = "getItem"
            THEN Execute(st, Append(cbs, [kind |-> "getItem", init |-> o.init,
                                          ok |-> ok, result |-> st.remaining]),
                         Tail(ops), Tail(oks))
            ELSE Execute(IF ok THEN EmptyStorage ELSE st,
                         Append(cbs, [kind |-> "multiRemove", init |-> FALSE,
                                      ok |-> ok, result |-> Absent]),
                         Tail(ops), Tail(oks))

\* whether each of n calls is fulfilled (TRUE) or rejected
Outcomes(n) == IF faulty THEN [1..n -> BOOLEAN] ELSE {[i \in 1..n |-> TRUE]}

\* the calls a handler issued, executed on the current storage, once the
\* result the handler was resumed with is taken off callbacks
Executed(s, oks) ==
    Execute(storage, SubSeq(callbacks, s.delivered + 1, Len(callbacks)), s.issued, oks)

\* Without that order: the calls a handler issued join the calls in flight
Issued(s) == [storage |-> storage,
              callbacks |-> SubSeq(callbacks, s.delivered + 1, Len(callbacks)),
              inflight |-> inflight \cup {s.issued[i] : i \in 1..Len(s.issued)}]

\* one call in flight completes: fulfilled (ok) or rejected
Complete(o, ok) ==
    IF o.op = "setItem"
    THEN [storage |-> IF ~ok THEN storage
                      ELSE IF o.key = TIMER_STORAGE_KEY
                      THEN [storage EXCEPT !.remaining = Stored(o.value)]
                      ELSE [storage EXCEPT !.lockState = Stored(o.value)],
          callbacks |-> callbacks]
    ELSE IF o.op = "getItem"
    THEN [storage |-> storage,
          callbacks |-> Append(callbacks,
                               [kind |-> "getItem", init |-> o.init, ok |-> ok,
                                result |-> storage.remaining])]
    ELSE [storage |-> IF ok THEN EmptyStorage ELSE storage,
          callbacks |-> Append(callbacks, [kind |-> "multiRemove", init |-> FALSE,
                                           ok |-> ok, result |-> Absent])]

(***************************************************************************)
(* Actions: one per handler                                                *)
(***************************************************************************)
\* the handler leaves the service in state s
CommitService(s, op) ==
    /\ IF serial
       THEN \E oks \in Outcomes(Len(s.issued)) :
               /\ Len(Executed(s, oks).callbacks) <= MaxPending
               /\ storage' = Executed(s, oks).storage
               /\ callbacks' = Executed(s, oks).callbacks
               /\ inflight' = inflight
       ELSE /\ Cardinality(Issued(s).inflight) <= MaxInFlight
            /\ storage' = storage
            /\ callbacks' = Issued(s).callbacks
            /\ inflight' = Issued(s).inflight
    /\ serial' = serial
    /\ faulty' = faulty
    /\ availableTime' = s.availableTime
    /\ timer' = s.timer
    /\ appState' = s.appState
    /\ isDeviceLocked' = s.isDeviceLocked
    /\ isTimerRunning' = s.isTimerRunning
    /\ backgroundStartTime' = s.backgroundStartTime
    /\ intervals' = s.intervals
    /\ emitted' = s.emitted
    /\ listeners' = s.listeners
    /\ received' = s.received
    /\ lastOp' = op
    /\ lockMark' = NextLockMark(op, s)
    /\ killed' = IF op = "initialize" THEN killed ELSE NotKilled
    /\ creditScenario' = NextCreditScenario(op, s)
    /\ episode' = NextEpisode(op, s)
    /\ resetPhase' = NextResetPhase(op)
    /\ UNCHANGED <<isInitialized, scheduled>>

\* the same for a handler that was not called by a change of the phone
Commit(s, op) ==
    /\ CommitService(s, op)
    /\ UNCHANGED <<device>>

\* the listeners setupDeviceLockListener registers
onDeviceLocked(s, data, t) ==
    LET s1 == handleLockStateChange([s EXCEPT !.isDeviceLocked = TRUE], t)
    IN notifyListeners(s1, TimeEvent("deviceLocked", s1.availableTime))

onDeviceUnlocked(s, data, t) ==
    LET s1 == handleLockStateChange([s EXCEPT !.isDeviceLocked = FALSE], t)
    IN notifyListeners(s1, TimeEvent("deviceUnlocked", s1.availableTime))

onCurrentLockState(s, data, t) ==
    handleLockStateChange([s EXCEPT !.isDeviceLocked = data.isLocked], t)

\* DeviceLockModule.createEventData
createEventData(isLocked, isUnlocked, screenOn) ==
    [isLocked |-> isLocked, isUnlocked |-> isUnlocked, isScreenOn |-> screenOn]

\* eventEmitter.addListener('deviceLocked', ...)
DeviceLocked ==
    /\ listening
    /\ Commit(onDeviceLocked(Self, createEventData(TRUE, FALSE, FALSE), now), "deviceLocked")
    /\ UNCHANGED <<listening, now>>

\* eventEmitter.addListener('deviceUnlocked', ...)
DeviceUnlocked ==
    /\ listening
    /\ \E isUnlocked \in BOOLEAN :
          Commit(onDeviceUnlocked(Self, createEventData(FALSE, isUnlocked, TRUE), now),
                 "deviceUnlocked")
    /\ UNCHANGED <<listening, now>>

\* eventEmitter.addListener('currentLockState', ...): the native module sends
\* this event in reply to getCurrentLockState(), which initialize() calls and
\* which stays callable from JS, so it may arrive whenever the listeners exist
CurrentLockState ==
    /\ listening
    /\ \E isLocked \in BOOLEAN :
          Commit(onCurrentLockState(Self, [isLocked |-> isLocked], now),
                 "currentLockState")
    /\ UNCHANGED <<listening, now>>

\* AppState.addEventListener('change', ...)
AppStateChange ==
    /\ listening
    /\ \E nextAppState \in AppStates :
          LET s0 == [Self EXCEPT !.appState = nextAppState]
              s1 == handleAppStateChange(s0, appState, nextAppState, now)
          IN Commit(notifyListeners(s1, TimeEvent("appStateChanged", s1.availableTime)),
                    "appStateChange")
    /\ UNCHANGED <<listening, now>>

\* a live interval whose period has elapsed calls tick()
TimerFire ==
    /\ \E i \in intervals :
          /\ now >= i.due
          /\ LET rearmed == (intervals \ {i}) \cup {[id |-> i.id, due |-> now + TickPeriod]}
             IN Commit(tick([Self EXCEPT !.intervals = rearmed]), "tick")
    /\ UNCHANGED <<listening, now>>

AddTimeCredits ==
    /\ \E seconds \in 1..MaxCredit :
          /\ availableTime + seconds <= MaxTime
          /\ Commit(addTimeCredits(Self, seconds, now), "addTimeCredits")
    /\ UNCHANGED <<listening, now>>

RemoveTimeCredits ==
    /\ \E seconds \in 1..MaxCredit :
          Commit(removeTimeCredits(Self, seconds, now), "removeTimeCredits")
    /\ UNCHANGED <<listening, now>>

\* resetAll() up to "await AsyncStorage.multiRemove"
ResetAll ==
    /\ Commit(resetAll(Self), "resetAll")
    /\ UNCHANGED <<listening, now>>

\* resetAll() after the await
ResetAllDone ==
    /\ callbacks # <<>>
    /\ Head(callbacks).kind = "multiRemove"
    /\ Commit(notifyListeners([Self EXCEPT !.delivered = 1], TimeEvent("reset", 0)), "resetAllDone")
    /\ UNCHANGED <<listening, now>>

\* loadSavedTime() called by the UI on mount, up to "await AsyncStorage.getItem"
LoadSavedTime ==
    /\ Commit([Self EXCEPT !.issued = <<GetItemOp(FALSE)>>], "loadSavedTime")
    /\ UNCHANGED <<listening, now>>

\* loadSavedTime() after the await; the call made by initialize() goes on to
\* register the listeners and to ask for the lock state
LoadSavedTimeDone ==
    /\ callbacks # <<>>
    /\ Head(callbacks).kind = "getItem"
    /\ Commit(loadSavedTimeAfterAwait([Self EXCEPT !.delivered = 1], Head(callbacks)),
              IF Head(callbacks).init THEN "initialize" ELSE "loadSavedTimeDone")
    /\ listening' = (listening \/ Head(callbacks).init)
    /\ UNCHANGED <<now>>

\* addEventListener(callback), called by an observer
AddEventListener ==
    /\ \E callback \in Callbacks :
          /\ Len(addEventListener(Self, callback).listeners) <= MaxListeners
          /\ Commit(addEventListener(Self, callback), "addEventListener")
    /\ UNCHANGED <<listening, now>>

\* the unsubscribe function addEventListener returned, called by the observer
RemoveEventListener ==
    /\ \E i \in 1..Len(listeners) :
          Commit(removeEventListener(Self, listeners[i]), "removeEventListener")
    /\ UNCHANGED <<listening, now>>

\* startTimer(), called on the exported singleton
StartTimer ==
    /\ Commit(startTimer(Self, now), "startTimer")
    /\ UNCHANGED <<listening, now>>

\* stopTimer(), called on the exported singleton
StopTimer ==
    /\ Commit(stopTimer(Self), "stopTimer")
    /\ UNCHANGED <<listening, now>>

\* cleanup(), called when the UI unmounts
Cleanup ==
    /\ Commit(cleanup(Self), "cleanup")
    /\ UNCHANGED <<listening, now>>

(***************************************************************************)
(* Actions of the environment                                              *)
(***************************************************************************)
Environment ==
    /\ lastOp' = "environment"
    /\ emitted' = <<>>
    /\ received' = <<>>
    /\ UNCHANGED <<listeners, availableTime, timer, appState, isDeviceLocked, isTimerRunning,
                   backgroundStartTime, listening, lockMark, killed,
                   creditScenario, episode, resetPhase>>

AdvanceClock ==
    /\ now < Epoch + MaxClockSteps * ClockStep
    /\ now' = now + ClockStep
    /\ Environment
    /\ UNCHANGED <<intervals, storage, callbacks, serial, faulty, inflight,
                   isInitialized, scheduled, device>>

\* time passes while the event loop keeps up: no interval is overdue
ClockTick ==
    /\ \A i \in intervals : now < i.due
    /\ AdvanceClock

\* the process is killed and launched again: memory, timers and undelivered
\* results are gone, storage stays; then new TimerService() as in Init
Restart ==
    /\ availableTime' = 0
    /\ timer' = null
    /\ appState' \in AppStates
    /\ isDeviceLocked' = FALSE
    /\ isTimerRunning' = FALSE
    /\ backgroundStartTime' = null
    /\ listening' = FALSE
    /\ intervals' = {}
    /\ \E oks \in Outcomes(1) :
          callbacks' = <<[kind |-> "getItem", init |-> TRUE, ok |-> oks[1],
                          result |-> storage.remaining]>>
    /\ lastOp' = "constructor"
    /\ emitted' = <<>>
    /\ listeners' = <<>>
    /\ received' = <<>>
    /\ lockMark' = NoMark
    /\ killed' = IF isTimerRunning
                 THEN [wasRunning |-> TRUE, checkpoint |-> LastExact,
                       remaining |-> Persisted]
                 ELSE NotKilled
    /\ creditScenario' = "idle"
    /\ episode' = NoMark
    /\ resetPhase' = "none"
    /\ isInitialized' = FALSE
    /\ UNCHANGED <<now, storage, serial, faulty, inflight, scheduled, device>>

\* the module singletons as their constructors leave them: new TimerService(),
\* and new NotificationService() on Android before createChannel has called back;
\* the phone is in use
Constructed ==
    /\ isInitialized = FALSE
    /\ scheduled = {}
    /\ device = [keyguardLocked |-> FALSE, screenOn |-> TRUE]
    /\ availableTime = 0
    /\ timer = null
    /\ appState \in AppStates
    /\ isDeviceLocked = FALSE
    /\ isTimerRunning = FALSE
    /\ backgroundStartTime = null
    /\ listening = FALSE
    /\ intervals = {}
    /\ lastOp = "constructor"
    /\ emitted = <<>>
    /\ listeners = <<>>
    /\ received = <<>>
    /\ lockMark = NoMark
    /\ killed = NotKilled
    /\ creditScenario = "idle"
    /\ episode = NoMark
    /\ resetPhase = "none"
    /\ now = Epoch

\* a fresh install, initialize() up to its await; AsyncStorage completes the
\* calls in the order they are issued and rejects none
Init ==
    /\ Constructed
    /\ storage = EmptyStorage
    /\ serial = TRUE
    /\ faulty = FALSE
    /\ inflight = {}
    /\ callbacks = <<[kind |-> "getItem", init |-> TRUE, ok |-> TRUE, result |-> Absent]>>

\* the same, with an AsyncStorage that may reject any call
InitFaulty ==
    /\ Constructed
    /\ storage = EmptyStorage
    /\ serial = TRUE
    /\ faulty = TRUE
    /\ inflight = {}
    /\ \E ok \in BOOLEAN :
          callbacks = <<[kind |-> "getItem", init |-> TRUE, ok |-> ok, result |-> Absent]>>

\* the same, with an AsyncStorage that completes the calls in any order
InitAnyOrder ==
    /\ Constructed
    /\ storage = EmptyStorage
    /\ serial = FALSE
    /\ faulty = FALSE
    /\ inflight = {GetItemOp(TRUE)}
    /\ callbacks = <<>>

\* stored text that parseInt cannot read as a number
Unparsable == {<<"x">>, <<"N", "a", "N">>}

\* a launch that finds such a text under the remaining-time key
InitMalformed ==
    /\ Constructed
    /\ \E text \in Unparsable :
          /\ storage = [remaining |-> Stored(text), lockState |-> Absent]
          /\ callbacks = <<[kind |-> "getItem", init |-> TRUE, ok |-> TRUE,
                            result |-> Stored(text)]>>
    /\ serial = TRUE
    /\ faulty = FALSE
    /\ inflight = {}

\* the part of the state the methods of NotificationService read and write
Notifications == [isInitialized |-> isInitialized, scheduled |-> scheduled]

\* a method of NotificationService leaves it in state ns; TimerService and
\* AsyncStorage are not involved
CommitNotifications(ns, op) ==
    /\ isInitialized' = ns.isInitialized
    /\ scheduled' = ns.scheduled
    /\ lastOp' = op
    /\ emitted' = <<>>
    /\ received' = <<>>
    /\ UNCHANGED <<listeners, availableTime, timer, appState, isDeviceLocked, isTimerRunning,
                   backgroundStartTime, listening, lockMark, killed,
                   creditScenario, episode, resetPhase>>
    /\ UNCHANGED <<storage, callbacks, serial, faulty, inflight, device>>

\* the callback of PushNotification.createChannel
ChannelCreated ==
    /\ ~isInitialized
    /\ CommitNotifications([Notifications EXCEPT !.isInitialized = TRUE], "channelCreated")
    /\ UNCHANGED <<now, intervals>>

\* scheduleTimeWarnings(availableTimeInSeconds), called by a client with the
\* time the service holds
ScheduleTimeWarnings ==
    /\ CommitNotifications(scheduleTimeWarnings(Notifications, availableTime, now),
                           "scheduleTimeWarnings")
    /\ UNCHANGED <<now, intervals>>

\* cancelAllNotifications(), called by a client
CancelAllNotifications ==
    /\ CommitNotifications(cancelAllNotifications(Notifications), "cancelAllNotifications")
    /\ UNCHANGED <<now, intervals>>

\* the OS shows a scheduled notification whose date has come
NotificationShown ==
    /\ \E n \in scheduled :
          /\ now >= n.date
          /\ CommitNotifications([Notifications EXCEPT !.scheduled = @ \ {n}],
                                "notificationShown")
    /\ UNCHANGED <<now, intervals>>

\* DeviceLockModule's receiver, ACTION_SCREEN_OFF: the keyguard locks now or
\* later (or never, when the phone has none)
ScreenOff ==
    /\ listening
    /\ device.screenOn
    /\ \E locks \in BOOLEAN :
          device' = [keyguardLocked |-> device.keyguardLocked \/ locks, screenOn |-> FALSE]
    /\ CommitService(onDeviceLocked(Self, createEventData(TRUE, FALSE, FALSE), now),
                     "deviceLocked")
    /\ UNCHANGED <<listening, now>>

\* ACTION_SCREEN_ON: deviceUnlocked is sent whether or not the keyguard is
\* still locked; isUnlocked tells which
ScreenOn ==
    /\ listening
    /\ ~device.screenOn
    /\ device' = [device EXCEPT !.screenOn = TRUE]
    /\ CommitService(onDeviceUnlocked(Self, createEventData(FALSE, ~device.keyguardLocked,
                                                            TRUE), now),
                     "deviceUnlocked")
    /\ UNCHANGED <<listening, now>>

\* ACTION_USER_PRESENT: the user has dismissed the keyguard
UserPresent ==
    /\ listening
    /\ device.screenOn
    /\ device.keyguardLocked
    /\ device' = [device EXCEPT !.keyguardLocked = FALSE]
    /\ CommitService(onDeviceUnlocked(Self, createEventData(FALSE, TRUE, TRUE), now),
                     "deviceUnlocked")
    /\ UNCHANGED <<listening, now>>

\* the keyguard locks some time after the screen went off; nothing is sent
KeyguardLocks ==
    /\ ~device.screenOn
    /\ ~device.keyguardLocked
    /\ device' = [device EXCEPT !.keyguardLocked = TRUE]
    /\ Environment
    /\ UNCHANGED <<now, intervals, storage, callbacks, serial, faulty, inflight,
                   isInitialized, scheduled>>

\* DeviceLockModule.getCurrentLockState(), called from JS: currentLockState
\* carries keyguardManager.isKeyguardLocked()
GetCurrentLockState ==
    /\ listening
    /\ Commit(onCurrentLockState(Self, [isLocked |-> device.keyguardLocked], now),
              "currentLockState")
    /\ UNCHANGED <<listening, now>>

\* AsyncStorage completes one of the calls in flight
StorageComplete ==
    /\ ~serial
    /\ \E o \in inflight, ok \in (IF faulty THEN BOOLEAN ELSE {TRUE}) :
          /\ Len(Complete(o, ok).callbacks) <= MaxPending
          /\ storage' = Complete(o, ok).storage
          /\ callbacks' = Complete(o, ok).callbacks
          /\ inflight' = inflight \ {o}
    /\ Environment
    /\ UNCHANGED <<now, intervals, serial, faulty, isInitialized, scheduled, device>>

Next ==
    \/ DeviceLocked
    \/ DeviceUnlocked
    \/ CurrentLockState
    \/ AppStateChange
    \/ TimerFire
    \/ AddTimeCredits
    \/ RemoveTimeCredits
    \/ ResetAll
    \/ ResetAllDone
    \/ LoadSavedTime
    \/ LoadSavedTimeDone
    \/ Cleanup
    \/ AdvanceClock
    \/ Restart

Spec == Init /\ [][Next]_vars

SpecMalformed == InitMalformed /\ [][Next]_vars

\* the handlers that use AsyncStorage, with a storage that may reject
NextFaulty ==
    \/ DeviceLocked
    \/ DeviceUnlocked
    \/ AppStateChange
    \/ TimerFire
    \/ AddTimeCredits
    \/ RemoveTimeCredits
    \/ ResetAll
    \/ ResetAllDone
    \/ LoadSavedTime
    \/ LoadSavedTimeDone
    \/ AdvanceClock
    \/ Restart

SpecFaulty == InitFaulty /\ [][NextFaulty]_vars

\* observers come and go while the service emits events
NextObservers ==
    \/ AddEventListener
    \/ RemoveEventListener
    \/ LoadSavedTimeDone
    \/ DeviceLocked
    \/ DeviceUnlocked
    \/ AppStateChange
    \/ AddTimeCredits
    \/ RemoveTimeCredits

SpecObservers == Init /\ [][NextObservers]_vars

\* the credit operations, reset and load, with a storage that completes the
\* calls in any order
NextAnyOrder ==
    \/ AddTimeCredits
    \/ RemoveTimeCredits
    \/ ResetAll
    \/ ResetAllDone
    \/ LoadSavedTime
    \/ LoadSavedTimeDone
    \/ StorageComplete

SpecAnyOrder == InitAnyOrder /\ [][NextAnyOrder]_vars

(***************************************************************************)
(* Claims                                                                  *)
(***************************************************************************)
Max(a, b) == IF a >= b THEN a ELSE b

\* C1: in every reachable state the remaining time (availableTime) is an
\* integer that is not negative.
C1_RemainingNeverNegative == availableTime \in Nat

\* C1 witness: removeTimeCredits was asked for more than was left, and the
\* remaining time is 0.
C1_Witness ==
    /\ lastOp = "removeTimeCredits"
    /\ \E i \in 1..Len(emitted) :
          /\ emitted[i].event = "creditsRemoved"
          /\ emitted[i].amount > emitted[i].previousTotal
    /\ availableTime = 0

\* the run state the conditions dictate is the run state the service has
RunStateConsistent == isTimerRunning <=> shouldTimerRun(Self)

\* the events C2 lists
C2_Events == {"deviceLocked", "deviceUnlocked", "currentLockState", "appStateChange",
              "tick", "addTimeCredits", "removeTimeCredits", "resetAll",
              "initialize", "loadSavedTimeDone"}

\* C2: after every processed event isTimerRunning is true iff shouldTimerRun()
\* is true of the current state. Stated on one step: an event of the list,
\* processed in a state where the two agree, leaves a state where they agree.
C2_RunStateFollowsConditions ==
    [][(lastOp' \in C2_Events /\ RunStateConsistent) => RunStateConsistent']_vars

\* C3: shouldTimerRun() is true exactly when time is left, the device is
\* unlocked and the app is not active.
C3_ShouldRunIsConjunction ==
    shouldTimerRun(Self) <=>
        (availableTime > 0 /\ ~isDeviceLocked /\ appState # "active")

\* C3 witness: the app is inactive (neither active nor background), unlocked,
\* with time left, and shouldTimerRun() is true.
C3_Witness ==
    /\ appState = "inactive"
    /\ ~isDeviceLocked
    /\ availableTime > 0
    /\ shouldTimerRun(Self)

\* C4: a stretch of not Active and unlocked that started with remaining R and
\* lasted E whole seconds leaves max(0, R - E) after the return to Active,
\* however many ticks fired meanwhile.
C4_ElapsedDebitedOnce ==
    [][(/\ lastOp' = "appStateChange"
        /\ appState # "active" /\ appState' = "active"
        /\ episode # NoMark)
       => availableTime' =
             Max(0, episode - (now - backgroundStartTime) \div MsPerSecond)]_vars

\* C5: a tick that runs e whole seconds after the remaining time was last
\* exact (the timer's start or its previous tick) debits e seconds, clamped
\* at zero.
C5_TickDebitsElapsed ==
    [][(lastOp' = "tick" /\ isTimerRunning /\ availableTime > 0)
       => availableTime' =
             Max(0, availableTime - (now - LastExact) \div MsPerSecond)]_vars

\* C6: after an Unlocked -> Locked signal processed in background with time
\* left, the remaining time at the next deviceUnlocked signal, and after a
\* transition to Active made while still locked, is what it was when the lock
\* signal was processed.
C6_NoDebitWhileLocked ==
    (/\ lockMark # NoMark
     /\ \/ lastOp = "deviceUnlocked"
        \/ lastOp = "appStateChange" /\ appState = "active" /\ isDeviceLocked)
    => availableTime = lockMark

\* C7: when the killed process had the timer running, with the remaining time
\* R it persisted exact E seconds ago, initialize() leaves max(0, R - E), and
\* emits timeExpired when E >= R.
C7_RestartDebitsElapsed ==
    (lastOp = "initialize" /\ killed.wasRunning)
    => LET E == (now - killed.checkpoint) \div MsPerSecond
           R == killed.remaining
       IN /\ availableTime = Max(0, R - E)
          /\ (R > 0 /\ E >= R) => HasEvent(emitted, "timeExpired")

\* C8: removeTimeCredits that takes the remaining time from positive to zero
\* emits exactly one timeExpired, and trackingStopped if the timer was running.
C8_RemoveToZeroExpires ==
    [][(lastOp' = "removeTimeCredits" /\ availableTime > 0 /\ availableTime' = 0)
       => /\ CountEvent(emitted', "timeExpired") = 1
          /\ isTimerRunning => HasEvent(emitted', "trackingStopped")]_vars

\* C9: a tick or a return to the foreground emits one timeExpired when it
\* takes the remaining time from positive to zero, leaving the timer stopped,
\* and emits none otherwise.
C9_OneExpiryPerZeroCrossing ==
    [][lastOp' \in {"tick", "appStateChange"}
       => IF availableTime > 0 /\ availableTime' = 0
          THEN CountEvent(emitted', "timeExpired") = 1 /\ ~isTimerRunning'
          ELSE CountEvent(emitted', "timeExpired") = 0]_vars

\* C10: after addTimeCredits from zero in background and unlocked, the step
\* that accounts for the last of the added seconds emits timeExpired and
\* leaves the timer stopped, and timeExpired is emitted only with 0 left.
C10_CreditsFromZeroExpire ==
    (creditScenario = "counting" /\ lastOp \in {"tick", "appStateChange"})
    => /\ availableTime = 0 => HasEvent(emitted, "timeExpired") /\ ~isTimerRunning
       /\ HasEvent(emitted, "timeExpired") => availableTime = 0

\* C11: a transition to Active clears backgroundStartTime; whenever the app
\* is active backgroundStartTime is null, the timer is stopped and no interval
\* is live; an Active signal, a tick or the passing of time while the app is
\* active leaves the remaining time as it is.
C11_NoAccrualWhileActive ==
    [][/\ appState' = "active"
          => /\ backgroundStartTime' = null
             /\ ~isTimerRunning'
             /\ intervals' = {}
       /\ (appState = "active" /\ lastOp' \in {"appStateChange", "tick", "environment"})
          => /\ availableTime' = availableTime
             /\ ~HasEvent(emitted', "backgroundTimeProcessed")]_vars

\* C11 witness: the transition to Active has reconciled the background time
\* and backgroundStartTime is cleared.
C11_Witness ==
    /\ lastOp = "appStateChange"
    /\ appState = "active"
    /\ HasEvent(emitted, "backgroundTimeProcessed")
    /\ backgroundStartTime = null

\* the lock signals of the native module
LockSignals == {"deviceLocked", "deviceUnlocked", "currentLockState"}
NoTracking(evs) == ~HasEvent(evs, "trackingStarted") /\ ~HasEvent(evs, "trackingStopped")

\* the trackingStarted / trackingStopped events of evs alternate, beginning
\* with trackingStarted iff the timer was stopped, and leave the run state final
RECURSIVE TrackingAlternates(_, _, _)
TrackingAlternates(evs, running, final) ==
    IF evs = <<>> THEN running = final
    ELSE IF Head(evs).event = "trackingStarted"
    THEN ~running /\ TrackingAlternates(Tail(evs), TRUE, final)
    ELSE IF Head(evs).event = "trackingStopped"
    THEN running /\ TrackingAlternates(Tail(evs), FALSE, final)
    ELSE TrackingAlternates(Tail(evs), running, final)

\* C12: a lock signal that repeats the lock state of the lock signal before
\* it, and an app state signal that repeats the app state of the one before
\* it, emit no trackingStarted and no trackingStopped; over the life of the
\* service the two events alternate, beginning with trackingStarted.
C12_NoDuplicateTracking ==
    [][/\ (lastOp \in LockSignals /\ lastOp' \in LockSignals
           /\ isDeviceLocked' = isDeviceLocked) => NoTracking(emitted')
       /\ (lastOp = "appStateChange" /\ lastOp' = "appStateChange"
           /\ appState' = appState) => NoTracking(emitted')
       /\ lastOp' # "constructor"
          => TrackingAlternates(emitted', isTimerRunning, isTimerRunning')]_vars

\* C12 witness: an unlock signal was processed while the timer was already
\* running (it runs and the signal started nothing).
C12_Witness ==
    /\ lastOp = "deviceUnlocked"
    /\ isTimerRunning
    /\ NoTracking(emitted)

\* C13: whenever no operation is in progress (no AsyncStorage result is
\* awaited), the value last written under the remaining-time key, absent
\* counting as 0, is the in-memory availableTime.
C13_WriteThrough == callbacks = <<>> => Persisted = availableTime

\* C14: when resetAll() finishes, with nothing else processed during its
\* await, the timer is stopped, availableTime is 0, backgroundStartTime is
\* null, no key is left in storage, and one reset event is emitted, reporting
\* the in-memory availableTime.
C14_ResetClearsEverything ==
    [][(lastOp = "resetAll" /\ lastOp' = "resetAllDone")
       => /\ ~isTimerRunning'
          /\ availableTime' = 0
          /\ backgroundStartTime' = null
          /\ storage' = EmptyStorage
          /\ CountEvent(emitted', "reset") = 1
          /\ \A i \in 1..Len(emitted') :
                emitted'[i].event = "reset"
                   => emitted'[i].availableTime = availableTime']_vars

\* C15: once resetAll() has finished, and as long as no operation has written
\* the remaining time since it began, the remaining-time key is absent from
\* storage (so a load reads nothing and yields 0), in whatever order the
\* calls in flight complete.
C15_NoStaleWriteAfterReset ==
    resetPhase = "finished" => ~storage.remaining.present

\* the calls notifyListeners owes: for each event in order, one call of each
\* callback in insertion order
RECURSIVE OwedCalls(_, _)
OwedCalls(evs, ls) ==
    IF evs = <<>> THEN <<>>
    ELSE [i \in 1..Len(ls) |-> [to |-> ls[i].id, event |-> Head(evs).event]]
         \o OwedCalls(Tail(evs), ls)

\* C16: every event an operation emits reaches every registered observer, in
\* registration order, whether or not an observer registered before it threw;
\* no operation ends early, so each still emits all of its events.
C16_ThrowingObserverIsolated ==
    lastOp \notin {"addEventListener", "removeEventListener"}
    => received = OwedCalls(emitted, listeners)

\* C16 witness: the first observer throws, and the observer registered after
\* it has received both events of an addTimeCredits that started the timer.
C16_Witness ==
    /\ lastOp = "addTimeCredits"
    /\ Len(listeners) = 2
    /\ listeners[1].throws
    /\ \E i, j \in 1..Len(received) :
          /\ i < j
          /\ received[i] = [to |-> listeners[2].id, event |-> "trackingStarted"]
          /\ received[j] = [to |-> listeners[2].id, event |-> "creditsAdded"]

\* C17: a load that reads a text parseInt cannot read leaves availableTime as
\* it was (0 at startup), a natural number.
C17_MalformedTreatedAsAbsent ==
    [][(/\ lastOp' \in {"initialize", "loadSavedTimeDone"}
        /\ callbacks # <<>>
        /\ Head(callbacks).result.present
        /\ parseInt(Head(callbacks).result.value) = NaN)
       => availableTime' = availableTime /\ availableTime' \in Nat]_vars

\* a launch that finds time above a warning threshold stored by an earlier run
InitReminders ==
    /\ Constructed
    /\ \E time \in {ThirtySeconds + 1, OneMinute + 1} :
          /\ storage = [remaining |-> Stored(toString(time)), lockState |-> Absent]
          /\ callbacks = <<[kind |-> "getItem", init |-> TRUE, ok |-> TRUE,
                            result |-> Stored(toString(time))]>>
    /\ serial = TRUE
    /\ faulty = FALSE
    /\ inflight = {}

\* the service changes the remaining time and the run state while a client
\* uses the NotificationService
NextReminders ==
    \/ LoadSavedTimeDone
    \/ TimerFire
    \/ AddTimeCredits
    \/ RemoveTimeCredits
    \/ ResetAll
    \/ ResetAllDone
    \/ AdvanceClock
    \/ ChannelCreated
    \/ ScheduleTimeWarnings
    \/ CancelAllNotifications
    \/ NotificationShown

SpecReminders == InitReminders /\ [][NextReminders]_vars

\* C19: whenever the remaining time or the run state changes, every scheduled
\* notification is cancelled and the warnings are scheduled anew, so that the
\* scheduled notifications are those of the current remaining time; none
\* stays scheduled once the remaining time is 0
WarningsFor(time, t) ==
    (IF time > FiveMinutes
     THEN {Notification(<<"5", " Minutes Remaining">>, t + (time - FiveMinutes) * MsPerSecond)}
     ELSE {})
    \cup (IF time > OneMinute
          THEN {Notification(<<"1", " Minute Remaining">>, t + (time - OneMinute) * MsPerSecond)}
          ELSE {})
    \cup (IF time > ThirtySeconds
          THEN {Notification(<<"30 Seconds Left">>, t + (time - ThirtySeconds) * MsPerSecond)}
          ELSE {})

C19_RemindersFollowRemaining ==
    [][/\ (availableTime' # availableTime \/ isTimerRunning' # isTimerRunning)
             => scheduled' = WarningsFor(availableTime', now')
       /\ availableTime' = 0 => scheduled' = {}]_vars

\* C18: a rejected storage call is not fatal. The operation that issued it
\* still completes and emits its events, and the remaining time and the run
\* state are what they would be had the call been fulfilled: a rejected
\* setItem under addTimeCredits, removeTimeCredits, tick and the lock handlers,
\* a rejected multiRemove under resetAll, and a rejected getItem under
\* loadSavedTime, which would have read the stored value
RunStateSettled ==
    isTimerRunning <=> /\ ~isDeviceLocked
                       /\ appState \in {"background", "inactive"}
                       /\ availableTime > 0

RejectedWritesHarmless ==
    /\ (lastOp' = "addTimeCredits" /\ storage'.remaining # Stored(toString(availableTime')))
          => /\ CountEvent(emitted', "creditsAdded") = 1
             /\ \E i \in 1..Len(emitted') :
                   /\ emitted'[i].event = "creditsAdded"
                   /\ availableTime' = availableTime + emitted'[i].amount
             /\ RunStateSettled'
    /\ (lastOp' = "removeTimeCredits" /\ storage'.remaining # Stored(toString(availableTime')))
          => /\ CountEvent(emitted', "creditsRemoved") = 1
             /\ \E i \in 1..Len(emitted') :
                   /\ emitted'[i].event = "creditsRemoved"
                   /\ availableTime' = Max(0, availableTime - emitted'[i].amount)
             /\ RunStateSettled'
    /\ (/\ lastOp' = "tick" /\ availableTime > 0
        /\ storage'.remaining # Stored(toString(availableTime')))
          => /\ availableTime' = availableTime - 1
             /\ isTimerRunning' = (isTimerRunning /\ availableTime' > 0)
             /\ emitted'[1] = TimeEvent("timeUpdate", availableTime')
             /\ HasEvent(emitted', "timeExpired") <=> availableTime' = 0
    /\ (lastOp' \in {"deviceLocked", "deviceUnlocked"} /\ ~storage'.lockState.present)
          => /\ isDeviceLocked' = (lastOp' = "deviceLocked")
             /\ availableTime' = availableTime
             /\ HasEvent(emitted', lastOp')
             /\ RunStateSettled'
    /\ (lastOp' = "resetAllDone" /\ ~Head(callbacks).ok)
          => /\ availableTime' = availableTime
             /\ isTimerRunning' = isTimerRunning
             /\ emitted' = <<TimeEvent("reset", 0)>>

C18_RejectedCallAsFulfilled ==
    [][/\ RejectedWritesHarmless
       /\ (/\ lastOp' \in {"initialize", "loadSavedTimeDone"}
           /\ ~Head(callbacks).ok)
             => /\ availableTime' = loadSavedTimeResume(Self, Head(callbacks).result).availableTime
                /\ emitted' = loadSavedTimeResume(Self, Head(callbacks).result).emitted
                /\ isTimerRunning' = isTimerRunning]_vars

\* C18 (amended): as above for a rejected setItem and a rejected multiRemove;
\* a rejected getItem leaves the remaining time and the run state as they
\* were in memory, emits no event, and initialize still goes on to listen
C18_RejectedCallNotFatal ==
    [][/\ RejectedWritesHarmless
       /\ (/\ lastOp' \in {"initialize", "loadSavedTimeDone"}
           /\ ~Head(callbacks).ok)
             => /\ availableTime' = availableTime
                /\ isTimerRunning' = isTimerRunning
                /\ emitted' = <<>>
                /\ (lastOp' = "initialize" => listening')]_vars

\* a launch whose getItem was rejected while a value was stored: initialize
\* has gone on to listen, nothing was loaded and nothing emitted
C18_Witness ==
    /\ lastOp = "initialize"
    /\ listening
    /\ emitted = <<>>
    /\ availableTime = 0
    /\ storage.remaining.present
    /\ Persisted > 0

\* C20: when a lock signal stops the running timer, the whole seconds that
\* have elapsed since the last tick (or since the start, before the first
\* tick) and were not yet debited are debited before the timer stops, down to
\* 0 at most, and the result is what storage holds
C20_StopFlushesElapsed ==
    [][(/\ lastOp' \in {"deviceLocked", "currentLockState"}
        /\ isTimerRunning /\ ~isTimerRunning'
        /\ availableTime \in Nat)
          => /\ availableTime' = Max(0, availableTime - ((now - LastExact) \div MsPerSecond))
             /\ Persisted' = availableTime']_vars

\* C21: every step that takes the timer from stopped to running sets
\* backgroundStartTime to the current time, starts an interval that first
\* fires one period later, keeps its id in timer and emits exactly one
\* trackingStarted; and whenever the timer is running, backgroundStartTime is
\* present and not later than the current time
C21_StartSetsCheckpoint ==
    [][/\ (~isTimerRunning /\ isTimerRunning')
            => /\ backgroundStartTime' = now'
               /\ timer' # null
               /\ [id |-> timer', due |-> now' + TickPeriod] \in intervals'
               /\ timer' \notin {i.id : i \in intervals}
               /\ CountEvent(emitted', "trackingStarted") = 1
       /\ isTimerRunning'
            => /\ backgroundStartTime' # null
               /\ backgroundStartTime' <= now']_vars

\* the timer was started after the clock had moved on and is still running
\* a period later
C21_Witness ==
    /\ isTimerRunning
    /\ backgroundStartTime > Epoch
    /\ now > backgroundStartTime

\* the signal handlers and credit operations, with startTimer() and
\* stopTimer() also called directly
NextDirect ==
    \/ LoadSavedTimeDone
    \/ DeviceLocked
    \/ DeviceUnlocked
    \/ AppStateChange
    \/ TimerFire
    \/ AddTimeCredits
    \/ RemoveTimeCredits
    \/ AdvanceClock
    \/ StartTimer
    \/ StopTimer

SpecDirect == Init /\ [][NextDirect]_vars

\* C22: startTimer() called while the timer is running and stopTimer() called
\* while it is stopped change nothing: no event, the same backgroundStartTime,
\* the same timer handle and intervals, the same remaining time; and a second
\* call right after a first one changes nothing either
NothingDone ==
    /\ emitted' = <<>>
    /\ backgroundStartTime' = backgroundStartTime
    /\ timer' = timer
    /\ intervals' = intervals
    /\ isTimerRunning' = isTimerRunning
    /\ availableTime' = availableTime
    /\ storage' = storage

C22_StartStopIdempotent ==
    [][/\ (lastOp' = "startTimer" /\ isTimerRunning) => NothingDone
       /\ (lastOp' = "stopTimer" /\ ~isTimerRunning) => NothingDone
       /\ (lastOp = "startTimer" /\ lastOp' = "startTimer") => NothingDone
       /\ (lastOp = "stopTimer" /\ lastOp' = "stopTimer") => NothingDone]_vars

\* startTimer() was called while the timer had been running for a period
C22_Witness ==
    /\ lastOp = "startTimer"
    /\ emitted = <<>>
    /\ isTimerRunning
    /\ now > backgroundStartTime

\* C23: a tick and a signal are handled one after the other, and stopping
\* the timer cancels its interval at once: tick() runs only from a state in
\* which the timer is running, once the timer is stopped no interval is left
\* that could call tick(), even one that was already due, and a handler that
\* calls stopTimer() on a stopped timer leaves timer and intervals alone
C23_StopCancelsTick ==
    [][/\ lastOp' = "tick" => isTimerRunning
       /\ ~isTimerRunning' => intervals' = {}
       /\ (/\ ~isTimerRunning
           /\ \/ lastOp' \in {"resetAll", "cleanup"}
              \/ lastOp' = "appStateChange" /\ appState' = "active")
            => /\ ~isTimerRunning'
               /\ timer' = timer
               /\ intervals' = intervals
               /\ ~HasEvent(emitted', "trackingStopped")]_vars

\* a lock signal has stopped the timer at an instant when its interval was
\* due: the interval is gone, so that tick never runs
C23_Witness ==
    /\ lastOp = "deviceLocked"
    /\ HasEvent(emitted, "trackingStopped")
    /\ intervals = {}
    /\ now >= backgroundStartTime + TickPeriod
    /\ availableTime > 0

\* C24: observers are called in the order in which they were registered. A
\* registration puts a new callback after those already registered (one that
\* is registered already keeps its place); the function addEventListener
\* returned removes that callback and leaves the others in their order; every
\* other operation leaves the observers alone and hands each event it emits
\* to exactly the registered callbacks, first registered first, so a removed
\* callback receives nothing
Registered(ls, callback) == \E i \in 1..Len(ls) : ls[i] = callback

NextDevice ==
    \/ LoadSavedTimeDone
    \/ ScreenOff
    \/ ScreenOn
    \/ UserPresent
    \/ KeyguardLocks
    \/ GetCurrentLockState
    \/ AppStateChange
    \/ AddTimeCredits
    \/ TimerFire
    \/ AdvanceClock

SpecDevice == Init /\ [][NextDevice]_vars

\* C25: once a lock event of the native module has been processed,
\* isDeviceLocked is false only if the keyguard is not locked; a
\* deviceUnlocked sent while the keyguard is locked leaves the device treated
\* as locked and starts no timer
C25_LockStateMirrorsKeyguard ==
    [][/\ (lastOp' \in LockSignals /\ ~isDeviceLocked') => ~device'.keyguardLocked
       /\ (lastOp' = "deviceUnlocked" /\ device'.keyguardLocked)
            => /\ isDeviceLocked' = isDeviceLocked
               /\ ~HasEvent(emitted', "trackingStarted")]_vars

\* a launch that finds a time at or just above a warning threshold, or none
InitWarnings ==
    /\ Constructed
    /\ \E stored \in {Absent} \cup {Stored(toString(T + over)) :
                                        T \in {FiveMinutes, OneMinute, ThirtySeconds},
                                        over \in {0, 1}} :
          /\ storage = [remaining |-> stored, lockState |-> Absent]
          /\ callbacks = <<[kind |-> "getItem", init |-> TRUE, ok |-> TRUE,
                            result |-> stored]>>
    /\ serial = TRUE
    /\ faulty = FALSE
    /\ inflight = {}

\* a client of the NotificationService schedules and cancels the warnings,
\* also after a reset has taken the time to 0
NextWarnings ==
    \/ LoadSavedTimeDone
    \/ ResetAll
    \/ ResetAllDone
    \/ AdvanceClock
    \/ ChannelCreated
    \/ ScheduleTimeWarnings
    \/ CancelAllNotifications
    \/ NotificationShown

SpecWarnings == InitWarnings /\ [][NextWarnings]_vars

\* C26: scheduleTimeWarnings(a), when the notifications are initialized and
\* a > 0, replaces whatever was scheduled by one warning for each threshold
\* of 300, 60 and 30 seconds that a exceeds, due a minus the threshold
\* seconds from now; when a <= 0 or the notifications are not initialized it
\* leaves what was scheduled as it is
C26_WarningsScheduled ==
    [][lastOp' = "scheduleTimeWarnings"
         => scheduled' = IF isInitialized /\ availableTime > 0
                         THEN WarningsFor(availableTime, now)
                         ELSE scheduled]_vars

\* called with more than five minutes left: the three warnings are scheduled
C26_Witness ==
    /\ lastOp = "scheduleTimeWarnings"
    /\ availableTime > FiveMinutes
    /\ Cardinality(scheduled) = 3

\* C27: in every reachable state timer holds an interval id exactly when the
\* timer is running, at most one interval is live, and a live interval is the
\* one timer refers to, so stopTimer() can always cancel it
C27_OneIntervalHeldByTimer ==
    /\ (timer # null) <=> isTimerRunning
    /\ Cardinality(intervals) <= 1
    /\ \A i \in intervals : i.id = timer

\* cleanup() has stopped a running timer
C27_Witness ==
    /\ lastOp = "cleanup"
    /\ HasEvent(emitted, "trackingStopped")
    /\ timer = null
    /\ intervals = {}

\* C28: a load whose getItem was issued before an addTimeCredits and whose
\* result is delivered right after it does not lose the credit: the
\* remaining time is still what addTimeCredits left, which is also the value
\* last written to storage
C28_CreditSurvivesLoad ==
    [][(/\ lastOp = "addTimeCredits"
        /\ lastOp' \in {"initialize", "loadSavedTimeDone"})
          => /\ availableTime' = availableTime
             /\ Persisted' = availableTime']_vars

\* every operation of the service, with time passing and intervals firing
\* when due
NextCountdown ==
    \/ LoadSavedTimeDone
    \/ DeviceLocked
    \/ DeviceUnlocked
    \/ AppStateChange
    \/ AddTimeCredits
    \/ RemoveTimeCredits
    \/ Cleanup
    \/ TimerFire
    \/ ClockTick

SpecCountdown == Init /\ [][NextCountdown]_vars /\ WF_vars(TimerFire) /\ WF_vars(ClockTick)

\* the timer is running and the clock of the model has room for the ticks
\* that the remaining time needs
CountingDown ==
    /\ isTimerRunning
    /\ availableTime >= 0
    /\ now + Max(availableTime, 1) * ClockStep <= Epoch + MaxClockSteps * ClockStep

\* the tick that found or made the remaining time 0 has stopped the timer and
\* emitted timeExpired
Expired ==
    /\ lastOp = "tick"
    /\ availableTime = 0
    /\ ~isTimerRunning
    /\ HasEvent(emitted, "timeExpired")

\* the app is active, the device is locked, or credits have just been added
Disturbed == appState = "active" \/ isDeviceLocked \/ lastOp = "addTimeCredits"

\* C29: if the timer is running and from then on the app stays away from
\* active, the device stays unlocked, no credits are added and the interval
\* keeps firing, then eventually the remaining time is 0, the timer is
\* stopped and timeExpired has been emitted
C29_CountdownExpires == (CountingDown /\ ~Disturbed) ~> (Expired \/ Disturbed)

\* C29 (amended): the same, provided also that from then on no
\* removeTimeCredits, resetAll, cleanup or loadSavedTime is performed
Interfered ==
    \/ Disturbed
    \/ lastOp \in {"removeTimeCredits", "resetAll", "resetAllDone", "cleanup",
                   "loadSavedTime", "loadSavedTimeDone", "initialize"}

C29_UndisturbedCountdownExpires == (CountingDown /\ ~Interfered) ~> (Expired \/ Interfered)

\* the second tick of a countdown from 2 has expired the timer
C29_Witness ==
    /\ Expired
    /\ backgroundStartTime # null
    /\ now >= backgroundStartTime + 2 * TickPeriod
    /\ CountEvent(emitted, "timeUpdate") = 1

\* the operations that lower the remaining time: a tick, the reconciliation
\* on coming to the foreground, removeTimeCredits and resetAll
MayDecrease ==
    \/ lastOp' \in {"tick", "removeTimeCredits", "resetAll"}
    \/ lastOp' = "appStateChange" /\ appState' = "active"

\* the operations that raise it: addTimeCredits and a load
MayIncrease == lastOp' \in {"addTimeCredits", "initialize", "loadSavedTimeDone"}

\* lock signals and app-state changes away from active keep the remaining
\* time, and the credit operations keep the environment state
SignalsKeepTime ==
    /\ lastOp' \in {"deviceLocked", "deviceUnlocked", "currentLockState"}
          => availableTime' = availableTime
    /\ (lastOp' = "appStateChange" /\ appState' # "active")
          => availableTime' = availableTime
    /\ lastOp' \in {"addTimeCredits", "removeTimeCredits"}
          => (appState' = appState /\ isDeviceLocked' = isDeviceLocked)

\* C30: lock signals and app-state changes to inactive or background leave
\* the remaining time unchanged; addTimeCredits and removeTimeCredits leave
\* appState and isDeviceLocked unchanged; within one process, only a tick,
\* the foreground reconciliation, removeTimeCredits and resetAll decrease the
\* remaining time, and only addTimeCredits and a load increase it
C30_Frame ==
    [][/\ SignalsKeepTime
       /\ (lastOp' # "constructor" /\ jsGt(availableTime, availableTime')) => MayDecrease
       /\ (lastOp' # "constructor" /\ jsGt(availableTime', availableTime)) => MayIncrease]_vars

\* the names of the events of one operation, in the order of emission
EventNames(evs) == [i \in 1..Len(evs) |-> evs[i].event]

\* timeExpired is the last event of its operation, so the state the
\* operation leaves is the state the observers are called in
ExpiredLast ==
    HasEvent(emitted', "timeExpired")
        => /\ CountEvent(emitted', "timeExpired") = 1
           /\ emitted'[Len(emitted')].event = "timeExpired"
           /\ availableTime' = 0
           /\ ~isTimerRunning'

\* C31: a tick that brings the remaining time to 0 emits timeUpdate (with
\* 0), then trackingStopped, then timeExpired; addTimeCredits that starts the
\* timer emits trackingStarted before creditsAdded; removeTimeCredits that
\* stops it emits trackingStopped before creditsRemoved; timeExpired is only
\* emitted with the remaining time 0 and the timer stopped
C31_EventOrder ==
    [][/\ (lastOp' = "tick" /\ jsGt(availableTime, 0) /\ availableTime' = 0)
            => /\ EventNames(emitted') = <<"timeUpdate", "trackingStopped", "timeExpired">>
               /\ emitted'[1].availableTime = 0
       /\ (lastOp' = "addTimeCredits" /\ ~isTimerRunning /\ isTimerRunning')
            => EventNames(emitted') = <<"trackingStarted", "creditsAdded">>
       /\ (lastOp' = "removeTimeCredits" /\ isTimerRunning /\ ~isTimerRunning')
            => EventNames(emitted') = <<"trackingStopped", "creditsRemoved">>
       /\ ExpiredLast]_vars

\* a tick has counted the last second down and the three events were emitted
C31_Witness ==
    /\ lastOp = "tick"
    /\ EventNames(emitted) = <<"timeUpdate", "trackingStopped", "timeExpired">>
    /\ emitted[1].availableTime = 0
    /\ availableTime = 0
    /\ ~isTimerRunning
    /\ now >= Epoch + TickPeriod
====
